---- MODULE Spec2Model ----
(***************************************************************************)
(* A model of friend-lite's Mycelia memory adapter                         *)
(* (services/memory/providers/mycelia.py) and of the speech-detection      *)
(* heuristic and the title and summary generators                          *)
(* (utils/conversation_utils.py).                                          *)
(*                                                                         *)
(* The adapter is an asyncio object: the code between two awaits runs      *)
(* atomically, so every action below is one such stretch of a handler: the *)
(* call itself up to its first await, or the resumption after an awaited   *)
(* reply (GET /health, User.get, POST to the resource endpoint) up to the  *)
(* next await or the return.  The remote service and the identity store    *)
(* are the environment: their replies are drawn nondeterministically.      *)
(***************************************************************************)
EXTENDS Integers, Sequences, FiniteSets, TLC

VARIABLES
    initialized,   \* self._initialized
    client,        \* self._client: 0 is None, h > 0 the handle made by attempt h
    attempts,      \* outcome of every initialize() attempt, by handle
    pc,            \* per task: the await a call is suspended at
    call,          \* per task: the operation called and its arguments
    loc,           \* per task: the handler's local variables
    ret,           \* per task: what the call gave its caller
    hist,          \* per task: what the call did (requests, lookups, replies)
    transcript_data,  \* analyze_speech: its argument
    settings,         \* analyze_speech: get_speech_detection_settings()
    analysis,         \* analyze_speech: the dict it returned
    request,       \* generate_*: the function called, its text and its segments
    gen_pc,        \* generate_*: idle, awaiting async_generate, or done
    prompt,        \* generate_*: what the prompt sent to async_generate was built from
    completions,   \* generate_*: outcome of every async_generate call
    gen_ret,       \* generate_*: what the call gave its caller
    unwrap_arg,    \* _extract_bson_id: its argument
    unwrapped      \* _extract_bson_id: the results of unwrapping it again and again

adapterVars == <<initialized, client, attempts, pc, call, loc, ret, hist>>
speechVars == <<transcript_data, settings, analysis>>
summaryVars == <<request, gen_pc, prompt, completions, gen_ret>>
unwrapVars == <<unwrap_arg, unwrapped>>
vars == <<adapterVars, speechVars, summaryVars, unwrapVars>>

(***************************************************************************)
(* Bounds of the model.                                                    *)
(***************************************************************************)
\* initialize() attempts in one run (each makes a fresh connection handle)
MaxInits == 2
\* remote listings of every mix of identifier forms up to this length
MaxMixed == 2
\* remote listings of plain identifiers up to this length
MaxList == 7
\* word records of a transcript
MaxWords == 2
\* characters of a transcript's text
MaxText == 3

Tasks == {"t1", "t2"}

(***************************************************************************)
(* JSON values as the adapter meets them.  A scalar or tagged identifier   *)
(* is [t, s, n]: "none" an absent key (Python None), "str" a string,       *)
(* "num" a number, "oid" the wrapper {"$oid": s}.                          *)
(***************************************************************************)
JNone == [t |-> "none", s |-> "", n |-> 0]
JStr(s) == [t |-> "str", s |-> s, n |-> 0]
JNum(n) == [t |-> "num", s |-> "", n |-> n]
JOid(s) == [t |-> "oid", s |-> s, n |-> 0]

\* Python truthiness of a JSON value (if memory_id:, if not user_email:)
Truthy(v) ==
    CASE v.t = "none" -> FALSE
      [] v.t = "str" -> v.s # ""
      [] v.t = "num" -> v.n # 0
      [] v.t = "oid" -> TRUE

\* the "_id" of a listed object, the "insertedId" of a create reply and the
\* "deletedCount" of a delete reply, as the remote may send them
ItemIds == {JNone, JStr("m1"), JNum(7), JOid("m2")}
InsertedIds == {JNone, JStr(""), JStr("m1"), JOid("m2")}
DeletedCounts == {JNone, JNum(0), JNum(1), JStr("1")}

SeqsUpTo(S, n) == UNION {[1..k -> S] : k \in 0..n}

\* a listing: the "_id" of each listed object, in the remote's order
PlainListing(n) == [i \in 1..n |-> JStr(IF i % 2 = 1 THEN "m1" ELSE "m3")]
Listings ==
    SeqsUpTo(ItemIds, MaxMixed) \cup {PlainListing(n) : n \in (MaxMixed + 1)..MaxList}

\* a decoded response body: a JSON list of objects, a JSON object or a number
ListBody(items) ==
    [t |-> "list", items |-> items, insertedId |-> JNone, deletedCount |-> JNone, n |-> 0]
ObjectBody(ins, del) ==
    [t |-> "object", items |-> <<>>, insertedId |-> ins, deletedCount |-> del, n |-> 0]
IntBody(n) ==
    [t |-> "int", items |-> <<>>, insertedId |-> JNone, deletedCount |-> JNone, n |-> n]
NoBody == [t |-> "nothing", items |-> <<>>, insertedId |-> JNone, deletedCount |-> JNone, n |-> 0]

Bodies ==
    {ListBody(l) : l \in Listings}
        \cup {ObjectBody(i, d) : i \in InsertedIds, d \in DeletedCounts}
        \cup {IntBody(n) : n \in {0, 3}}

\* what an awaited POST gives: a transport error (httpx.HTTPError, timeout),
\* a non-success status (raise_for_status), a body response.json() cannot
\* decode, or a decoded body
Reply(kind, body) == [kind |-> kind, body |-> body]
NoReply == Reply("none", NoBody)
Replies ==
    {Reply(k, NoBody) : k \in {"transport", "status", "badjson"}}
        \cup {Reply("json", b) : b \in Bodies}

\* what an awaited GET /health gives
HealthReplies == {"ok", "status", "transport"}

(***************************************************************************)
(* Values handed to a caller.                                              *)
(***************************************************************************)
Value(t, b, n, seq, body) == [t |-> t, b |-> b, n |-> n, seq |-> seq, body |-> body]
VNone == Value("none", FALSE, 0, <<>>, NoBody)
VBool(b) == Value("bool", b, 0, <<>>, NoBody)
VInt(n) == Value("int", FALSE, n, <<>>, NoBody)
VTuple(b, ids) == Value("tuple", b, 0, ids, NoBody)
VList(entries) == Value("list", FALSE, 0, entries, NoBody)
VJson(body) == Value("json", FALSE, 0, <<>>, body)

Return(v) == [kind |-> "return", exc |-> "", val |-> v]
Raise(e) == [kind |-> "raise", exc |-> e, val |-> VNone]
NoRet == [kind |-> "none", exc |-> "", val |-> VNone]


(***************************************************************************)
(* Arguments, locals and the record of what a call did.                    *)
(***************************************************************************)
\* user_id and user_email as callers pass them: None, "" or a value
UserIds == {JNone, JStr(""), JStr("u1")}
UserEmails == {JNone, JStr("u1@example.com")}

\* score_threshold in units of 0.0001 (0.0 is the default); -0.15 lets every
\* rank of a listing through, 1.1 none
Thresholds == {-1500, 0, 4000, 4500, 7000, 10000, 11000}

Call(op, user_id, user_email, score_threshold, memory_id) ==
    [op |-> op, user_id |-> user_id, user_email |-> user_email,
     score_threshold |-> score_threshold, memory_id |-> memory_id]
NoCall == Call("none", JNone, JNone, 0, JNone)

\* inner: the handler is inside the delete_memory that delete_all_user_memories awaits
Loc0 ==
    [inner |-> FALSE, handle |-> 0, result |-> <<>>, idx |-> 0, deleted_count |-> 0,
     memory_id |-> JNone]

\* nReq: HTTP requests the call issued; nLookup: User.get lookups it made;
\* lookupFailed: a lookup of the handler itself found no user; reply: what the
\* handler's own POST was answered with; confirmed: deletes of the sweep the
\* remote answered with a deletedCount above 0; wasInit: self._initialized
\* when the call began
Hist0 ==
    [nReq |-> 0, nLookup |-> 0, lookupFailed |-> FALSE, reply |-> NoReply,
     confirmed |-> 0, wasInit |-> FALSE]

Cfg(p, l, h, r) == [pc |-> p, loc |-> l, hist |-> h, ret |-> r]

\* the handler whose code is running
EffOp(c, l) == IF l.inner THEN "delete_memory" ELSE c.op

\* what each handler's "except Exception" returns
Negative(op) ==
    CASE op = "add_memory" -> VTuple(FALSE, <<>>)
      [] op = "search_memories" -> VList(<<>>)
      [] op = "get_all_memories" -> VList(<<>>)
      [] op = "count_memories" -> VNone
      [] op = "delete_memory" -> VBool(FALSE)
      [] op = "delete_all_user_memories" -> VInt(0)
      [] op = "test_connection" -> VBool(FALSE)

(***************************************************************************)
(* The pure parts of the handlers.                                         *)
(***************************************************************************)
\* _extract_bson_id giving back what it is given
_extract_bson_id_unchanged(raw_id) == raw_id

\* _extract_bson_id: {"$oid": s} gives s, anything else str(raw_id)
_extract_bson_id(raw_id) ==
    CASE raw_id.t = "oid" -> JStr(raw_id.s)
      [] raw_id.t = "str" -> raw_id
      [] raw_id.t = "num" -> JStr(ToString(raw_id.n))
      [] raw_id.t = "none" -> JStr("None")

\* obj.get("_id", "")
ObjGetId(obj) == IF obj.t = "none" THEN JStr("") ELSE obj

\* _mycelia_object_to_memory_entry: the entry's id; score is None until set
_mycelia_object_to_memory_entry(obj) ==
    [id |-> _extract_bson_id(ObjGetId(obj)), scored |-> FALSE, score |-> 0]

\* 1.0 - (i * 0.1) in IEEE doubles, in units of 0.0001: at the ranks below the
\* double is the one just under the decimal value (0.3999999999999999 at rank 6),
\* which the last unit records when it is compared with a threshold
FloatBelow == {6, 7, 8, 9, 11, 12, 13, 14, 16, 17, 19, 22, 23, 24}
DecayScore(i) == (10000 - i * 1000) - (IF i \in FloatBelow THEN 1 ELSE 0)

\* search_loop dropping an entry whose score equals the threshold
RECURSIVE search_loop_strict(_, _, _, _)
search_loop_strict(result, i, memories, score_threshold) ==
    IF i >= Len(result) THEN memories
    ELSE LET score == DecayScore(i) IN
         IF score <= score_threshold
         THEN search_loop_strict(result, i + 1, memories, score_threshold)
         ELSE LET entry == _mycelia_object_to_memory_entry(result[i + 1]) IN
              search_loop_strict(result, i + 1,
                  Append(memories, [entry EXCEPT !.scored = TRUE, !.score = score]),
                  score_threshold)

\* the loop of search_memories over enumerate(result), from rank i on
RECURSIVE search_loop(_, _, _, _)
search_loop(result, i, memories, score_threshold) ==
    IF i >= Len(result) THEN memories
    ELSE LET score == DecayScore(i) IN
         IF score < score_threshold
         THEN search_loop(result, i + 1, memories, score_threshold)
         ELSE LET entry == _mycelia_object_to_memory_entry(result[i + 1]) IN
              search_loop(result, i + 1,
                  Append(memories, [entry EXCEPT !.scored = TRUE, !.score = score]),
                  score_threshold)

\* search_memories after its request: a body that is no list of objects raises
\* inside the try and gives []
search_result(body, score_threshold) ==
    IF body.t = "list" THEN VList(search_loop(body.items, 0, <<>>, score_threshold))
    ELSE Negative("search_memories")

\* get_all_memories after its request
get_all_result(body) ==
    IF body.t = "list"
    THEN VList([i \in 1..Len(body.items) |-> _mycelia_object_to_memory_entry(body.items[i])])
    ELSE Negative("get_all_memories")

\* add_result testing "is not None" where the code tests truthiness
add_result_not_none(body) ==
    IF body.t = "object"
    THEN LET memory_id == body.insertedId IN
         IF memory_id.t # "none" THEN VTuple(TRUE, <<memory_id>>) ELSE VTuple(FALSE, <<>>)
    ELSE Negative("add_memory")

\* add_memory after its request: result.get("insertedId"), if memory_id: ...
add_result(body) ==
    IF body.t = "object"
    THEN LET memory_id == body.insertedId IN
         IF Truthy(memory_id) THEN VTuple(TRUE, <<memory_id>>) ELSE VTuple(FALSE, <<>>)
    ELSE Negative("add_memory")

\* delete_memory after its request: result.get("deletedCount", 0) > 0; a count
\* that is no number raises TypeError inside the try
delete_result(body) ==
    IF body.t = "object"
    THEN LET deleted_count == body.deletedCount IN
         CASE deleted_count.t = "none" -> VBool(FALSE)
           [] deleted_count.t = "num" -> VBool(deleted_count.n > 0)
           [] OTHER -> Negative("delete_memory")
    ELSE Negative("delete_memory")

\* count_memories after its request: return response.json()
count_result(body) == VJson(body)

(***************************************************************************)
(* analyze_speech.  Confidences and thresholds are in tenths, offsets in   *)
(* seconds.  A word record may lack any of its keys: w.get("confidence",   *)
(* 0), .get("start", 0) and .get("end", 0) read a missing key as 0.        *)
(***************************************************************************)
Word(hc, c, ht, s, e) ==
    [has_confidence |-> hc, confidence |-> c, has_timing |-> ht, start |-> s, end |-> e]

\* the word records a transcript is made of: without a confidence, below and
\* above the usual threshold of 0.5; without offsets, early and late
Timings == {<<FALSE, 0, 0>>, <<TRUE, 0, 1>>, <<TRUE, 2, 3>>}
WordRecords ==
    {Word(c > 0, c, tm[1], tm[2], tm[3]) : c \in {0, 4, 8}, tm \in Timings}

\* text: a string as its characters
Chars == {"a", " "}
Texts == SeqsUpTo(Chars, MaxText)

\* the whitespace str.strip() and str.split() act on
Whitespace == {" ", "\n"}

\* str.strip(chars): without the leading and trailing characters of chars
RECURSIVE lstrip_chars(_, _)
lstrip_chars(text, chars) ==
    IF text # <<>> /\ Head(text) \in chars THEN lstrip_chars(Tail(text), chars) ELSE text
RECURSIVE rstrip_chars(_, _)
rstrip_chars(text, chars) ==
    IF text # <<>> /\ text[Len(text)] \in chars
    THEN rstrip_chars(SubSeq(text, 1, Len(text) - 1), chars)
    ELSE text
strip_chars(text, chars) == rstrip_chars(lstrip_chars(text, chars), chars)

\* str.strip(): without the leading and trailing whitespace
lstrip(text) == lstrip_chars(text, Whitespace)
rstrip(text) == rstrip_chars(text, Whitespace)
strip(text) == rstrip(lstrip(text))

\* split_len counting the separators instead of the runs between them
split_len_separators(text) ==
    Cardinality({i \in 1..Len(text) : text[i] \in Whitespace})

\* len(text.split()): the runs of characters between whitespace
split_len(text) ==
    Cardinality({i \in 1..Len(text) :
        text[i] \notin Whitespace /\ (i = 1 \/ text[i - 1] \in Whitespace)})

w_get_confidence(w) == IF w.has_confidence THEN w.confidence ELSE 0
w_get_start(w) == IF w.has_timing THEN w.start ELSE 0
w_get_end(w) == IF w.has_timing THEN w.end ELSE 0

\* valid_words_of keeping only the words strictly above the threshold
valid_words_of_strict(words, min_confidence) ==
    SelectSeq(words, LAMBDA w : w_get_confidence(w) > min_confidence)

\* [w for w in words if w.get("confidence", 0) >= settings["min_confidence"]]
valid_words_of(words, min_confidence) ==
    SelectSeq(words, LAMBDA w : w_get_confidence(w) >= min_confidence)

\* the dict analyze_speech returns; reason names the message, timed says
\* whether speech_start and speech_end are set, fallback whether "fallback"
\* is set (it is only ever set to True)
Analysis(has_speech, reason, word_count, duration, timed, speech_start, speech_end, fallback) ==
    [has_speech |-> has_speech, reason |-> reason, word_count |-> word_count,
     duration |-> duration, timed |-> timed, speech_start |-> speech_start,
     speech_end |-> speech_end, fallback |-> fallback]
NoAnalysis == Analysis(FALSE, "not called", 0, 0, FALSE, 0, 0, FALSE)

\* Method 2 and the final return of analyze_speech
text_fallback(td, st) ==
    LET text == strip(td.text)
        word_count == split_len(text) IN
    IF text # <<>> /\ word_count >= st.min_words
    THEN Analysis(TRUE, "Valid speech detected (no timing data)", word_count, 0,
                  TRUE, 0, 0, TRUE)
    ELSE Analysis(FALSE, "No meaningful speech content detected", 0, 0, FALSE, 0, 0, FALSE)

\* analyze_speech timing the speech from the first and last word of the
\* transcript instead of the first and last valid word
analyze_speech_all_words(td, st) ==
    LET words == td.words IN
    IF words # <<>>
    THEN LET valid_words == valid_words_of(words, st.min_confidence) IN
         IF Len(valid_words) < st.min_words
         THEN Analysis(FALSE, "Not enough valid words", Len(valid_words), 0, FALSE, 0, 0, FALSE)
         ELSE IF valid_words # <<>>
         THEN LET speech_start == w_get_start(words[1])
                  speech_end == w_get_end(words[Len(words)])
                  speech_duration == speech_end - speech_start IN
              Analysis(TRUE, "Valid speech detected", Len(valid_words), speech_duration,
                       TRUE, speech_start, speech_end, FALSE)
         ELSE text_fallback(td, st)
    ELSE text_fallback(td, st)

analyze_speech(td, st) ==
    LET words == td.words IN
    IF words # <<>>
    THEN LET valid_words == valid_words_of(words, st.min_confidence) IN
         IF Len(valid_words) < st.min_words
         THEN Analysis(FALSE, "Not enough valid words", Len(valid_words), 0, FALSE, 0, 0, FALSE)
         ELSE IF valid_words # <<>>
         THEN LET speech_start == w_get_start(valid_words[1])
                  speech_end == w_get_end(valid_words[Len(valid_words)])
                  speech_duration == speech_end - speech_start IN
              Analysis(TRUE, "Valid speech detected", Len(valid_words), speech_duration,
                       TRUE, speech_start, speech_end, FALSE)
         ELSE text_fallback(td, st)
    ELSE text_fallback(td, st)

(***************************************************************************)
(* The title and summary generators.  A string is the sequence of its      *)
(* characters; a segment is a dict with a "speaker" and a "text".          *)
(***************************************************************************)
\* c * n
Rep(c, n) == [i \in 1..n |-> c]

\* s[:n]
Take(s, n) == SubSeq(s, 1, IF Len(s) < n THEN Len(s) ELSE n)

FirstIn(S) == CHOOSE x \in S : \A y \in S : x <= y

\* text.split(): the runs of characters between whitespace
RECURSIVE split(_)
split(text) ==
    LET t == lstrip(text)
        at == {i \in 1..Len(t) : t[i] \in Whitespace} IN
    IF t = <<>> THEN <<>>
    ELSE IF at = {} THEN <<t>>
    ELSE <<SubSeq(t, 1, FirstIn(at) - 1)>> \o split(SubSeq(t, FirstIn(at) + 1, Len(t)))

\* text.split(sep): the pieces between the separators, the empty ones included
RECURSIVE split_on(_, _)
split_on(text, sep) ==
    LET at == {i \in 1..Len(text) : text[i] = sep} IN
    IF at = {} THEN <<text>>
    ELSE <<SubSeq(text, 1, FirstIn(at) - 1)>>
             \o split_on(SubSeq(text, FirstIn(at) + 1, Len(text)), sep)

\* sep.join(parts)
RECURSIVE join(_, _)
join(parts, sep) ==
    IF parts = <<>> THEN <<>>
    ELSE IF Len(parts) = 1 THEN parts[1]
    ELSE parts[1] \o <<sep>> \o join(Tail(parts), sep)

\* "Conversation"
Conversation ==
    << "C", "o", "n", "v", "e", "r", "s", "a", "t", "i", "o", "n" >>
\* "No content"
NoContent ==
    << "N", "o", " ", "c", "o", "n", "t", "e", "n", "t" >>
\* "No meaningful content to summarize"
NoMeaningfulContent ==
    << "N", "o", " ", "m", "e", "a", "n", "i", "n", "g", "f", "u",
       "l", " ", "c", "o", "n", "t", "e", "n", "t", " ", "t", "o",
       " ", "s", "u", "m", "m", "a", "r", "i", "z", "e" >>
Ellipsis == <<".", ".", ".">>

Segment(speaker, text) == [speaker |-> speaker, text |-> text]

\* generate_title: the loop over segments[:10]
RECURSIVE title_lines(_)
title_lines(segments) ==
    IF segments = <<>> THEN <<>>
    ELSE LET segment_text == strip(Head(segments).text) IN
         (IF segment_text # <<>> THEN segment_text \o <<"\n">> ELSE <<>>)
             \o title_lines(Tail(segments))

\* title_text taking the text argument whatever the segments
title_text_ignoring_segments(text, segments) == text

\* generate_title: the text it works from
title_text(text, segments) ==
    IF segments # <<>>
    THEN LET conversation_text == title_lines(Take(segments, 10)) IN
         IF strip(conversation_text) # <<>> THEN conversation_text ELSE text
    ELSE text

\* generate_*_summary: the loop over segments, giving formatted_text and
\* speakers_in_conv
RECURSIVE format_segments(_)
format_segments(segments) ==
    IF segments = <<>> THEN [formatted_text |-> <<>>, speakers_in_conv |-> {}]
    ELSE LET speaker == Head(segments).speaker
             segment_text == strip(Head(segments).text)
             rest == format_segments(Tail(segments)) IN
         IF segment_text # <<>>
         THEN IF speaker # <<>>
              THEN [formatted_text |->
                        speaker \o <<":", " ">> \o segment_text \o <<"\n">>
                            \o rest.formatted_text,
                    speakers_in_conv |-> {speaker} \cup rest.speakers_in_conv]
              ELSE [formatted_text |-> segment_text \o <<"\n">> \o rest.formatted_text,
                    speakers_in_conv |-> rest.speakers_in_conv]
         ELSE rest

\* summary_source asking for two speaker labels
summary_source_two_speakers(text, segments) ==
    LET f == format_segments(segments) IN
    IF segments # <<>> /\ strip(f.formatted_text) # <<>>
    THEN [conversation_text |-> f.formatted_text,
          include_speakers |-> Cardinality(f.speakers_in_conv) > 1]
    ELSE [conversation_text |-> text, include_speakers |-> FALSE]

\* generate_*_summary: conversation_text and include_speakers
summary_source(text, segments) ==
    LET f == format_segments(segments) IN
    IF segments # <<>> /\ strip(f.formatted_text) # <<>>
    THEN [conversation_text |-> f.formatted_text,
          include_speakers |-> Cardinality(f.speakers_in_conv) > 0]
    ELSE [conversation_text |-> text, include_speakers |-> FALSE]

\* completion.strip().strip('"').strip("'") or default
clean(completion, default) ==
    LET c == strip_chars(strip_chars(strip(completion), {"\""}), {"'"}) IN
    IF c # <<>> THEN c ELSE default

\* generate_title: the except branch
title_fallback(text) ==
    LET words == Take(split(text), 6)
        title == join(words, " ") IN
    IF Len(title) > 40 THEN Take(title, 40) \o Ellipsis
    ELSE IF title # <<>> THEN title ELSE Conversation

\* short_fallback cutting the stripped text
short_fallback_stripped(conversation_text) ==
    LET t == strip(conversation_text) IN
    IF Len(t) > 120 THEN Take(t, 120) \o Ellipsis
    ELSE IF t # <<>> THEN t ELSE NoContent

\* generate_short_summary: the except branch
short_fallback(conversation_text) ==
    IF Len(conversation_text) > 120 THEN Take(conversation_text, 120) \o Ellipsis
    ELSE IF conversation_text # <<>> THEN conversation_text ELSE NoContent

\* generate_detailed_summary: the except branch
detailed_fallback(conversation_text) ==
    LET lines == split_on(conversation_text, "\n")
        stripped == [i \in 1..Len(lines) |-> strip(lines[i])]
        cleaned == join(SelectSeq(stripped, LAMBDA line : line # <<>>), "\n") IN
    IF Len(cleaned) > 2000 THEN Take(cleaned, 2000) \o Ellipsis
    ELSE IF cleaned # <<>> THEN cleaned ELSE NoMeaningfulContent

\* what a generate_* call gave its caller
NoResult == [kind |-> "none", value |-> <<>>]
Returns(value) == [kind |-> "return", value |-> value]

\* the locals of a call suspended at async_generate: the text it works from,
\* the part of it quoted in the prompt and whether the prompt carries the
\* speaker instructions
NoPrompt == [source |-> <<>>, excerpt |-> <<>>, speaker_instruction |-> FALSE]
Prompt(source, excerpt, speaker_instruction) ==
    [source |-> source, excerpt |-> excerpt, speaker_instruction |-> speaker_instruction]

GenDone(value) == [pc |-> "done", prompt |-> NoPrompt, result |-> Returns(value)]
GenAwait(p) == [pc |-> "awaiting", prompt |-> p, result |-> NoResult]

\* generate_title up to its await
generate_title_begin(text, segments) ==
    LET t == title_text(text, segments) IN
    IF t = <<>> \/ Len(strip(t)) < 10 THEN GenDone(Conversation)
    ELSE GenAwait(Prompt(t, Take(t, 500), FALSE))

\* generate_short_summary up to its await
generate_short_summary_begin(text, segments) ==
    LET s == summary_source(text, segments) IN
    IF s.conversation_text = <<>> \/ Len(strip(s.conversation_text)) < 10
    THEN GenDone(NoContent)
    ELSE GenAwait(Prompt(s.conversation_text, Take(s.conversation_text, 1000),
                         s.include_speakers))

\* generate_detailed_summary up to its await
generate_detailed_summary_begin(text, segments) ==
    LET s == summary_source(text, segments) IN
    IF s.conversation_text = <<>> \/ Len(strip(s.conversation_text)) < 10
    THEN GenDone(NoMeaningfulContent)
    ELSE GenAwait(Prompt(s.conversation_text, s.conversation_text, s.include_speakers))

\* what async_generate gives: a completion, or an exception
Completed(text) == [raised |-> FALSE, text |-> text]
Failed == [raised |-> TRUE, text |-> <<>>]

\* a generate_* call after its await
after_completion(fn, p, outcome) ==
    CASE fn = "generate_title" ->
           IF outcome.raised THEN title_fallback(p.source)
           ELSE clean(outcome.text, Conversation)
      [] fn = "generate_short_summary" ->
           IF outcome.raised THEN short_fallback(p.source)
           ELSE clean(outcome.text, NoContent)
      [] fn = "generate_detailed_summary" ->
           IF outcome.raised THEN detailed_fallback(p.source)
           ELSE clean(outcome.text, NoMeaningfulContent)

NoRequest == [fn |-> "none", text |-> <<>>, segments |-> <<>>]

SummaryIdle ==
    /\ request = NoRequest
    /\ gen_pc = "idle"
    /\ prompt = NoPrompt
    /\ completions = <<>>
    /\ gen_ret = NoResult

UnwrapIdle ==
    /\ unwrap_arg = JNone
    /\ unwrapped = <<>>

(***************************************************************************)
(* The handlers between awaits.  Each operator takes the call c, the       *)
(* locals l and the record h and gives the task's next configuration: the  *)
(* await it suspends at, or "done" with what the caller gets.              *)
(***************************************************************************)
RECURSIVE Finish(_, _, _, _)

\* the running handler's "except Exception": log and return the negative value
Caught(c, l, h) == Finish(c, l, h, Negative(EffOp(c, l)))

\* _call_resource posting whether or not there is a client
_call_resource_unguarded(c, l, h) ==
    Cfg("post", l, [h EXCEPT !.nReq = @ + 1], NoRet)

\* _call_resource (and the POST of count_memories) up to its await: without a
\* client it raises RuntimeError, which the handler catches
_call_resource(c, l, h) ==
    IF client = 0 THEN Caught(c, l, h)
    ELSE Cfg("post", l, [h EXCEPT !.nReq = @ + 1], NoRet)

\* _get_user_jwt up to its await: with an email no lookup is made
_get_user_jwt(c, l, h, user_email) ==
    IF Truthy(user_email) THEN _call_resource(c, l, h)
    ELSE Cfg("lookup", l, [h EXCEPT !.nLookup = @ + 1], NoRet)

\* delete_memory_body without the "if not user_id" guard
delete_memory_body_unguarded(c, l, h, user_id, user_email) ==
    _get_user_jwt(c, l, h, user_email)

\* delete_memory from its first line
delete_memory_body(c, l, h, user_id, user_email) ==
    IF ~Truthy(user_id) THEN Finish(c, l, h, VBool(FALSE))
    ELSE _get_user_jwt(c, l, h, user_email)

\* the loop of delete_all_user_memories, at the object of index l.idx
delete_all_loop(c, l, h) ==
    IF l.idx > Len(l.result)
    THEN Cfg("done", l, h, Return(VInt(l.deleted_count)))
    ELSE delete_memory_body(c,
             [l EXCEPT !.inner = TRUE,
                       !.memory_id = _extract_bson_id(ObjGetId(l.result[l.idx]))],
             h, c.user_id, JNone)

\* Finish counting every delete of the sweep, confirmed or not
Finish_counts_all(c, l, h, v) ==
    IF l.inner
    THEN delete_all_loop(c,
             [l EXCEPT !.inner = FALSE, !.idx = @ + 1, !.deleted_count = @ + 1], h)
    ELSE Cfg("done", l, h, Return(v))

\* the running handler returns v: to the caller, or to the loop that awaited it
Finish(c, l, h, v) ==
    IF l.inner
    THEN delete_all_loop(c,
             [l EXCEPT !.inner = FALSE, !.idx = @ + 1,
                       !.deleted_count = IF v.b THEN @ + 1 ELSE @],
             h)
    ELSE Cfg("done", l, h, Return(v))

\* the handler resumes with the answer to its POST
after_post(c, l, h, reply) ==
    LET op == EffOp(c, l) IN
    IF reply.kind # "json" THEN Caught(c, l, h)
    ELSE CASE op = "add_memory" -> Finish(c, l, h, add_result(reply.body))
           [] op = "search_memories" ->
                Finish(c, l, h, search_result(reply.body, c.score_threshold))
           [] op = "get_all_memories" -> Finish(c, l, h, get_all_result(reply.body))
           [] op = "count_memories" -> Finish(c, l, h, count_result(reply.body))
           [] op = "delete_memory" -> Finish(c, l, h, delete_result(reply.body))
           [] op = "delete_all_user_memories" ->
                IF reply.body.t = "list"
                THEN delete_all_loop(c,
                         [l EXCEPT !.result = reply.body.items, !.idx = 1,
                                   !.deleted_count = 0],
                         h)
                ELSE Caught(c, l, h)

\* the handler resumes with the answer of User.get: no user raises ValueError
\* inside the handler's try
after_lookup(c, l, h, found) ==
    IF found THEN _call_resource(c, l, h) ELSE Caught(c, l, h)

\* the remote confirmed a delete: a decoded object with deletedCount above 0
Confirms(reply) ==
    /\ reply.kind = "json"
    /\ reply.body.t = "object"
    /\ reply.body.deletedCount.t = "num"
    /\ reply.body.deletedCount.n > 0

(***************************************************************************)
(* State.                                                                  *)
(***************************************************************************)
AdapterInit ==
    /\ initialized = FALSE
    /\ client = 0
    /\ attempts = <<>>
    /\ pc = [t \in Tasks |-> "idle"]
    /\ call = [t \in Tasks |-> NoCall]
    /\ loc = [t \in Tasks |-> Loc0]
    /\ ret = [t \in Tasks |-> NoRet]
    /\ hist = [t \in Tasks |-> Hist0]

Init ==
    /\ AdapterInit
    /\ transcript_data = [text |-> <<>>, words |-> <<>>]
    /\ settings = [min_words |-> 5, min_confidence |-> 5]
    /\ analysis = NoAnalysis
    /\ SummaryIdle
    /\ UnwrapIdle

Callable(t) == pc[t] \in {"idle", "done"}

Become(t, cfg) ==
    /\ pc' = [pc EXCEPT ![t] = cfg.pc]
    /\ loc' = [loc EXCEPT ![t] = cfg.loc]
    /\ hist' = [hist EXCEPT ![t] = cfg.hist]
    /\ ret' = [ret EXCEPT ![t] = cfg.ret]
    /\ UNCHANGED <<speechVars, summaryVars, unwrapVars>>

Started == [Hist0 EXCEPT !.wasInit = initialized]

\* initialize() up to its await: a new client replaces self._client and
\* GET /health is sent
BeginInitialize(t, c) ==
    /\ Len(attempts) < MaxInits
    /\ attempts' = Append(attempts, "pending")
    /\ client' = Len(attempts) + 1
    /\ UNCHANGED initialized
    /\ call' = [call EXCEPT ![t] = c]
    /\ Become(t, Cfg("health", [Loc0 EXCEPT !.handle = Len(attempts) + 1],
                     [Started EXCEPT !.nReq = 1], NoRet))

\* a handler that starts "if not self._initialized: await self.initialize()"
\* and then asks for the user's token
LazyCall(t, c) ==
    IF ~initialized THEN BeginInitialize(t, c)
    ELSE /\ call' = [call EXCEPT ![t] = c]
         /\ Become(t, _get_user_jwt(c, Loc0, Started, JNone))
         /\ UNCHANGED <<initialized, client, attempts>>

\* a handler that goes straight into its try block
DirectCall(t, c, cfg) ==
    /\ call' = [call EXCEPT ![t] = c]
    /\ Become(t, cfg)
    /\ UNCHANGED <<initialized, client, attempts>>

(***************************************************************************)
(* The operations, each up to its first await.                             *)
(***************************************************************************)
initialize(t) ==
    /\ Callable(t)
    /\ BeginInitialize(t, Call("initialize", JNone, JNone, 0, JNone))

add_memory(t) ==
    /\ Callable(t)
    /\ \E user_email \in UserEmails :
         LET c == Call("add_memory", JStr("u1"), user_email, 0, JNone) IN
         DirectCall(t, c, _get_user_jwt(c, Loc0, Started, user_email))

\* search_memories with its score_threshold among thresholds
search_memories_with(t, thresholds) ==
    /\ Callable(t)
    /\ \E score_threshold \in thresholds :
         LazyCall(t, Call("search_memories", JStr("u1"), JNone, score_threshold, JNone))

search_memories(t) == search_memories_with(t, Thresholds)

get_all_memories(t) ==
    /\ Callable(t)
    /\ LazyCall(t, Call("get_all_memories", JStr("u1"), JNone, 0, JNone))

count_memories(t) ==
    /\ Callable(t)
    /\ LazyCall(t, Call("count_memories", JStr("u1"), JNone, 0, JNone))

delete_memory(t) ==
    /\ Callable(t)
    /\ \E user_id \in UserIds, user_email \in UserEmails :
         LET c == Call("delete_memory", user_id, user_email, 0, JStr("m1")) IN
         DirectCall(t, c, delete_memory_body(c, Loc0, Started, user_id, user_email))

delete_all_user_memories(t) ==
    /\ Callable(t)
    /\ \E user_id \in UserIds :
         LET c == Call("delete_all_user_memories", user_id, JNone, 0, JNone) IN
         DirectCall(t, c, _get_user_jwt(c, Loc0, Started, JNone))

\* test_connection: initialization, when needed, is inside its try
test_connection(t) ==
    /\ Callable(t)
    /\ LET c == Call("test_connection", JNone, JNone, 0, JNone) IN
       IF ~initialized THEN BeginInitialize(t, c)
       ELSE DirectCall(t, c,
                IF client = 0 THEN Cfg("done", Loc0, Started, Return(VBool(FALSE)))
                ELSE Cfg("probe", Loc0, [Started EXCEPT !.nReq = 1], NoRet))

\* shutdown is synchronous: it logs, and clears the flag; the client is kept
shutdown(t) ==
    /\ Callable(t)
    /\ initialized' = FALSE
    /\ call' = [call EXCEPT ![t] = Call("shutdown", JNone, JNone, 0, JNone)]
    /\ Become(t, Cfg("done", Loc0, Started, Return(VNone)))
    /\ UNCHANGED <<client, attempts>>

(***************************************************************************)
(* The resumptions after an await.                                         *)
(***************************************************************************)
\* initialize() after GET /health: 200 sets the flag; any other answer raises
\* RuntimeError, which only test_connection catches.  The lazy handlers go on
\* to their try block.
HealthReply(t) ==
    /\ pc[t] = "health"
    /\ \E r \in HealthReplies :
         LET c == call[t]
             l == loc[t]
             h == hist[t] IN
         /\ attempts' = [attempts EXCEPT ![l.handle] = IF r = "ok" THEN "ok" ELSE "failed"]
         /\ initialized' = IF r = "ok" THEN TRUE ELSE initialized
         /\ UNCHANGED <<client, call>>
         /\ Become(t,
              IF r # "ok"
              THEN IF c.op = "test_connection"
                   THEN Cfg("done", l, h, Return(VBool(FALSE)))
                   ELSE Cfg("done", l, h, Raise("RuntimeError"))
              ELSE CASE c.op = "initialize" -> Cfg("done", l, h, Return(VNone))
                     [] c.op = "test_connection" ->
                          IF client = 0 THEN Cfg("done", l, h, Return(VBool(FALSE)))
                          ELSE Cfg("probe", l, [h EXCEPT !.nReq = @ + 1], NoRet)
                     [] OTHER -> _get_user_jwt(c, l, h, JNone))

\* _get_user_jwt after User.get
LookupReply(t) ==
    /\ pc[t] = "lookup"
    /\ \E found \in BOOLEAN :
         LET l == loc[t]
             h == IF ~found /\ ~l.inner THEN [hist[t] EXCEPT !.lookupFailed = TRUE]
                  ELSE hist[t] IN
         Become(t, after_lookup(call[t], l, h, found))
    /\ UNCHANGED <<initialized, client, attempts, call>>

\* _call_resource / count_memories after the POST, answered by one of replies
PostReplyFrom(t, replies) ==
    /\ pc[t] = "post"
    /\ \E reply \in replies :
         LET l == loc[t]
             h == IF l.inner
                  THEN [hist[t] EXCEPT !.confirmed = IF Confirms(reply) THEN @ + 1 ELSE @]
                  ELSE [hist[t] EXCEPT !.reply = reply] IN
         Become(t, after_post(call[t], l, h, reply))
    /\ UNCHANGED <<initialized, client, attempts, call>>

PostReply(t) == PostReplyFrom(t, Replies)

\* test_connection after its own GET /health
ProbeReply(t) ==
    /\ pc[t] = "probe"
    /\ \E r \in HealthReplies :
         Become(t, Cfg("done", loc[t], hist[t], Return(VBool(r = "ok"))))
    /\ UNCHANGED <<initialized, client, attempts, call>>

Step(t) ==
    \/ initialize(t)
    \/ add_memory(t)
    \/ search_memories(t)
    \/ get_all_memories(t)
    \/ count_memories(t)
    \/ delete_memory(t)
    \/ delete_all_user_memories(t)
    \/ test_connection(t)
    \/ shutdown(t)
    \/ HealthReply(t)
    \/ LookupReply(t)
    \/ PostReply(t)
    \/ ProbeReply(t)

\* one caller that awaits each call before the next
Next == Step("t1")

Spec == Init /\ [][Next]_vars

(***************************************************************************)
(* Two callers on one adapter, each making lazily-initializing calls; a    *)
(* call may begin while the other caller's call is suspended at an await.  *)
(***************************************************************************)
\* the arguments and the answers that tell the outcomes of a call apart
RaceThresholds == {0}
RaceReplies ==
    {Reply("transport", NoBody), Reply("json", ListBody(<<>>)),
     Reply("json", ListBody(PlainListing(1))), Reply("json", IntBody(3))}

RaceStep(t) ==
    \/ search_memories_with(t, RaceThresholds)
    \/ get_all_memories(t)
    \/ count_memories(t)
    \/ HealthReply(t)
    \/ LookupReply(t)
    \/ PostReplyFrom(t, RaceReplies)

NextRace == \E t \in Tasks : RaceStep(t)

SpecRace == Init /\ [][NextRace]_vars

(***************************************************************************)
(* analyze_speech on every transcript and setting within the bounds.       *)
(***************************************************************************)
\* SPEECH_DETECTION_MIN_WORDS and SPEECH_DETECTION_MIN_CONFIDENCE as configured
MinWordsSettings == {0, 1, 2}
MinConfidenceSettings == {0, 5}

InitSpeech ==
    /\ AdapterInit
    /\ transcript_data \in [text : Texts, words : SeqsUpTo(WordRecords, MaxWords)]
    /\ settings \in [min_words : MinWordsSettings, min_confidence : MinConfidenceSettings]
    /\ analysis = NoAnalysis
    /\ SummaryIdle
    /\ UnwrapIdle

AnalyzeSpeech ==
    /\ analysis = NoAnalysis
    /\ analysis' = analyze_speech(transcript_data, settings)
    /\ UNCHANGED <<adapterVars, transcript_data, settings, summaryVars, unwrapVars>>

NextSpeech == AnalyzeSpeech

SpecSpeech == InitSpeech /\ [][NextSpeech]_vars

(***************************************************************************)
(* analyze_speech on transcripts that carry a text and no word records.    *)
(***************************************************************************)
\* "um yeah so anyway let's meet tomorrow at noon"
Utterance ==
    <<
      "u", "m", " ", "y", "e", "a", "h", " ", "s", "o", " ", "a",
      "n", "y", "w", "a", "y", " ", "l", "e", "t", "'", "s", " ",
      "m", "e", "e", "t", " ", "t", "o", "m", "o", "r", "r", "o",
      "w", " ", "a", "t", " ", "n", "o", "o", "n" >>

\* SPEECH_DETECTION_MIN_WORDS at its documented default
DefaultMinWords == {5}

InitText ==
    /\ AdapterInit
    /\ transcript_data \in [text : Texts \cup {Utterance}, words : {<<>>}]
    /\ settings \in [min_words : MinWordsSettings \cup DefaultMinWords,
                     min_confidence : MinConfidenceSettings]
    /\ analysis = NoAnalysis
    /\ SummaryIdle
    /\ UnwrapIdle

NextText == AnalyzeSpeech

SpecText == InitText /\ [][NextText]_vars

(***************************************************************************)
(* generate_title, generate_short_summary and generate_detailed_summary on *)
(* the texts, segment lists and completions below.                         *)
(***************************************************************************)
\* segment lists up to this length
MaxSegments == 2

\* count words of width letters each, a space between them
Phrase(count, width) == join([i \in 1..count |-> Rep("a", width)], " ")

\* transcripts around the lengths the code tests (10, 40, 120 and 2000
\* characters, 6 words): empty, short, short once stripped, of several words,
\* and long
SummaryTexts ==
    {<<>>, Rep("a", 3), Rep("a", 9), Rep("a", 10), Rep("a", 5) \o Rep(" ", 6),
     Rep(" ", 2) \o Rep("a", 10), Phrase(8, 2), Phrase(7, 7), Rep("a", 120),
     Rep("a", 121), Phrase(2, 60), Rep("a", 2000), Rep("a", 2001)}

\* the transcripts passed together with segments
SegmentedTexts == {<<>>, Rep("a", 3), Rep("a", 10), Phrase(8, 2)}

\* segments: without a speaker label or with one of two, with a blank text, a
\* short one or a longer one
Speakers == {<<>>, <<"A">>, <<"B">>}
SegmentTexts == {<<" ">>, Rep("a", 4), Rep("a", 12) \o <<" ">>}
Segments == {Segment(sp, tx) : sp \in Speakers, tx \in SegmentTexts}

\* segments = None or [] is the empty list
Requests ==
    {[fn |-> "none", text |-> tx, segments |-> <<>>] : tx \in SummaryTexts}
        \cup {[fn |-> "none", text |-> tx, segments |-> sg] :
                tx \in SegmentedTexts, sg \in SeqsUpTo(Segments, MaxSegments) \ {<<>>}}

\* what async_generate answers: nothing, blanks, quotes only, a quoted title,
\* a plain sentence, a long one; or it raises
CompletionTexts ==
    {<<>>, <<" ", "\n">>, <<"\"", "\"">>, <<" ", "\"", "a", "b", "\"", "\n">>,
     <<"'", "a", "b", "'">>, Rep("a", 120), Rep("a", 121)}
Completions == {Failed} \cup {Completed(tx) : tx \in CompletionTexts}

InitSummary ==
    /\ AdapterInit
    /\ transcript_data = [text |-> <<>>, words |-> <<>>]
    /\ settings = [min_words |-> 5, min_confidence |-> 5]
    /\ analysis = NoAnalysis
    /\ request \in Requests
    /\ gen_pc = "idle"
    /\ prompt = NoPrompt
    /\ completions = <<>>
    /\ gen_ret = NoResult
    /\ UnwrapIdle

\* a generate_* call up to its await, or to its return when it does not await
Generate(fn, cfg) ==
    /\ gen_pc = "idle"
    /\ request' = [request EXCEPT !.fn = fn]
    /\ gen_pc' = cfg.pc
    /\ prompt' = cfg.prompt
    /\ gen_ret' = cfg.result
    /\ completions' = IF cfg.pc = "awaiting" THEN Append(completions, "pending")
                      ELSE completions
    /\ UNCHANGED <<adapterVars, speechVars, unwrapVars>>

generate_title ==
    Generate("generate_title", generate_title_begin(request.text, request.segments))

generate_short_summary ==
    Generate("generate_short_summary",
             generate_short_summary_begin(request.text, request.segments))

generate_detailed_summary ==
    Generate("generate_detailed_summary",
             generate_detailed_summary_begin(request.text, request.segments))

\* async_generate returns or raises, and the call runs to its return
CompletionReply ==
    /\ gen_pc = "awaiting"
    /\ \E outcome \in Completions :
         /\ completions' = [completions EXCEPT ![Len(completions)] =
                               IF outcome.raised THEN "raised" ELSE "returned"]
         /\ gen_ret' = Returns(after_completion(request.fn, prompt, outcome))
    /\ gen_pc' = "done"
    /\ UNCHANGED <<request, prompt, adapterVars, speechVars, unwrapVars>>

NextSummary ==
    \/ generate_title
    \/ generate_short_summary
    \/ generate_detailed_summary
    \/ CompletionReply

SpecSummary == InitSummary /\ [][NextSummary]_vars

(***************************************************************************)
(* _extract_bson_id applied to an identifier, and again to what it gave.   *)
(***************************************************************************)
\* applications of _extract_bson_id in a row
MaxUnwraps == 2

\* identifier strings: empty, short, and ones that read like a wrapper key or
\* like str(None)
IdParts == {"", "m", "1", "$oid", "None"}
IdStrings == {x \o y : x \in IdParts, y \in IdParts}

\* an identifier as the remote side sends it: a string, {"$oid": string}, a
\* number, or none at all
RawIds ==
    {JStr(x) : x \in IdStrings} \cup {JOid(x) : x \in IdStrings}
        \cup {JNum(n) : n \in {0, 7}} \cup {JNone}

InitUnwrap ==
    /\ AdapterInit
    /\ transcript_data = [text |-> <<>>, words |-> <<>>]
    /\ settings = [min_words |-> 5, min_confidence |-> 5]
    /\ analysis = NoAnalysis
    /\ SummaryIdle
    /\ unwrap_arg \in RawIds
    /\ unwrapped = <<>>

Unwrap ==
    /\ Len(unwrapped) < MaxUnwraps
    /\ unwrapped' = Append(unwrapped,
           _extract_bson_id(IF unwrapped = <<>> THEN unwrap_arg
                            ELSE unwrapped[Len(unwrapped)]))
    /\ UNCHANGED <<unwrap_arg, adapterVars, speechVars, summaryVars>>

NextUnwrap == Unwrap

SpecUnwrap == InitUnwrap /\ [][NextUnwrap]_vars

(***************************************************************************)
(* Properties of the adapter (under Spec).                                 *)
(***************************************************************************)
Done(t) == pc[t] = "done"
Returned(t, v) == Done(t) /\ ret[t] = Return(v)

\* the handler's own request was answered by a decoded body
Answered(t) == hist[t].reply.kind = "json"

\* C1: delete_memory called with no user identity (user_id None or "") returns
\* False in every adapter state, having issued no remote request and made no
\* identity lookup.
C1_DeleteWithoutUserRefused ==
    \A t \in Tasks :
        call[t].op = "delete_memory" /\ ~Truthy(call[t].user_id) =>
            /\ Returned(t, VBool(FALSE))
            /\ hist[t].nReq = 0
            /\ hist[t].nLookup = 0

\* C1 witness: the refusal on an adapter that is initialized and holds a client
C1_Witness ==
    /\ initialized /\ client # 0
    /\ call["t1"].op = "delete_memory"
    /\ call["t1"].user_id = JStr("")
    /\ call["t1"].user_email # JNone
    /\ Returned("t1", VBool(FALSE))

\* C2: when the identity lookup of search, listAll, count, deleteOne or
\* deleteAll on an initialized adapter finds no user, the caller observes
\* something other than the operation's network-failure result (the identity
\* error surfaces).
C2_LookupFailureSurfaces ==
    \A t \in Tasks :
        /\ Done(t) /\ hist[t].wasInit /\ hist[t].lookupFailed
        /\ call[t].op \in {"search_memories", "get_all_memories", "count_memories",
                           "delete_memory", "delete_all_user_memories"}
        => ret[t] # Return(Negative(call[t].op))

\* the kind of body each operation's request is answered with
ExpectedBody(op) ==
    CASE op \in {"add_memory", "delete_memory"} -> "object"
      [] op \in {"search_memories", "get_all_memories", "delete_all_user_memories"} -> "list"
      [] op = "count_memories" -> "int"

ResourceOps ==
    {"add_memory", "search_memories", "get_all_memories", "count_memories",
     "delete_memory", "delete_all_user_memories"}

\* the handler's own request failed: transport error, non-success status, or a
\* response that cannot be decoded or is not of the operation's kind
RequestFailed(t) ==
    \/ hist[t].reply.kind \in {"transport", "status", "badjson"}
    \/ Answered(t) /\ hist[t].reply.body.t # ExpectedBody(call[t].op)

\* C3: whenever the remote request of add, search, listAll, count, deleteOne
\* or deleteAll fails, the operation raises nothing and returns its negative
\* value: (False, []), [], [], None, False, 0.
C3_RequestFailureGivesNegative ==
    \A t \in Tasks :
        Done(t) /\ call[t].op \in ResourceOps /\ RequestFailed(t) =>
            ret[t] = Return(Negative(call[t].op))

\* C3 holds of the five operations other than count_memories, and of
\* count_memories when its response is not decodable at all
C3_ExceptDecodedCount ==
    \A t \in Tasks :
        /\ Done(t) /\ call[t].op \in ResourceOps /\ RequestFailed(t)
        /\ ~(call[t].op = "count_memories" /\ Answered(t))
        => ret[t] = Return(Negative(call[t].op))

IsPlainString(v) == v.t = "str"

\* C4: every identifier handed to a caller is a plain string: MemoryEntry.id in
\* the results of search and listAll, and the identifiers add_memory returns.
C4_IdentifiersArePlainStrings ==
    \A t \in Tasks :
        Done(t) /\ ret[t].kind = "return" =>
            /\ ret[t].val.t = "list" =>
                 \A k \in 1..Len(ret[t].val.seq) : IsPlainString(ret[t].val.seq[k].id)
            /\ ret[t].val.t = "tuple" =>
                 \A k \in 1..Len(ret[t].val.seq) : IsPlainString(ret[t].val.seq[k])

\* C4 holds of the entries of search and listAll
C4_EntryIdsArePlainStrings ==
    \A t \in Tasks :
        Done(t) /\ ret[t].kind = "return" /\ ret[t].val.t = "list" =>
            \A k \in 1..Len(ret[t].val.seq) : IsPlainString(ret[t].val.seq[k].id)

NonEmptyId(v) == v.t # "none" /\ v # JStr("")

\* C6: add_memory returns (True, [id]) with exactly one identifier when the
\* create response carries a non-empty insertedId equal to id, and (False, [])
\* in every other case, a response of {} included.
C6_AddReturnsInsertedId ==
    \A t \in Tasks :
        Done(t) /\ call[t].op = "add_memory" =>
            IF Answered(t) /\ hist[t].reply.body.t = "object"
                 /\ NonEmptyId(hist[t].reply.body.insertedId)
            THEN ret[t] = Return(VTuple(TRUE, <<hist[t].reply.body.insertedId>>))
            ELSE ret[t] = Return(VTuple(FALSE, <<>>))

\* C6 witness: {"insertedId": "m1"} gives (True, ["m1"])
C6_Witness ==
    /\ call["t1"].op = "add_memory"
    /\ Answered("t1") /\ hist["t1"].reply.body = ObjectBody(JStr("m1"), JNone)
    /\ Returned("t1", VTuple(TRUE, <<JStr("m1")>>))

\* C6 witness of the other case: {} gives (False, [])
C6_WitnessEmptyObject ==
    /\ call["t1"].op = "add_memory"
    /\ Answered("t1") /\ hist["t1"].reply.body = ObjectBody(JNone, JNone)
    /\ Returned("t1", VTuple(FALSE, <<>>))

\* C7: delete_all_user_memories returns exactly the number of listed records
\* whose delete the remote confirmed; an unconfirmed or failed delete is not
\* counted and does not stop the sweep; the count never exceeds the number
\* listed and is 0 when the listing fails.
C7_DeleteAllCountsConfirmed ==
    \A t \in Tasks :
        Done(t) /\ call[t].op = "delete_all_user_memories" =>
            LET listed == Answered(t) /\ hist[t].reply.body.t = "list"
                n == IF listed THEN Len(hist[t].reply.body.items) ELSE 0 IN
            /\ ret[t] = Return(VInt(hist[t].confirmed))
            /\ hist[t].confirmed <= n
            /\ listed => loc[t].idx = n + 1
            /\ ~listed => ret[t] = Return(VInt(0))

\* C7 witness: three records listed, the sweep went through all of them and
\* two of the deletes were confirmed
C7_Witness ==
    /\ Done("t1") /\ call["t1"].op = "delete_all_user_memories"
    /\ Answered("t1") /\ Len(hist["t1"].reply.body.items) = 3
    /\ loc["t1"].idx = 4
    /\ hist["t1"].nReq = 4
    /\ Returned("t1", VInt(2))

(***************************************************************************)
(* Properties of analyze_speech (under SpecSpeech).                        *)
(***************************************************************************)
Analyzed == analysis # NoAnalysis

\* the positions of the word records whose confidence meets the threshold
Qualifying ==
    {i \in 1..Len(transcript_data.words) :
        w_get_confidence(transcript_data.words[i]) >= settings.min_confidence}

\* C8: for every minimum confidence, every minimum word count and every
\* transcript, fewer qualifying words than the minimum gives has_speech = false
\* with word_count the number of qualifying words.
C8_TooFewWordsNoSpeech ==
    Analyzed /\ Cardinality(Qualifying) < settings.min_words =>
        /\ ~analysis.has_speech
        /\ analysis.word_count = Cardinality(Qualifying)

\* C8 as amended: the same for every transcript whose word list is present and
\* non-empty (without word records the text decides).
C8_TooFewWordsNoSpeechGivenWords ==
    Analyzed /\ transcript_data.words # <<>>
        /\ Cardinality(Qualifying) < settings.min_words =>
        /\ ~analysis.has_speech
        /\ analysis.word_count = Cardinality(Qualifying)
        /\ analysis.duration = 0
        /\ ~analysis.fallback

\* C8 witness: two word records of which one qualifies, against a minimum of
\* two, beside a text of two tokens
C8_Witness ==
    /\ Analyzed
    /\ Len(transcript_data.words) = 2
    /\ Cardinality(Qualifying) = 1
    /\ settings.min_words = 2
    /\ split_len(transcript_data.text) = 2
    /\ ~analysis.has_speech
    /\ analysis.word_count = 1

\* C9: analyze_speech never returns fallback = true for a transcript whose word
\* list is present and non-empty, whatever the two settings.
C9_NoFallbackGivenWords ==
    Analyzed /\ transcript_data.words # <<>> => ~analysis.fallback

\* C9 holds when the minimum word count is at least 1
C9_NoFallbackGivenWordsAndMinimum ==
    Analyzed /\ transcript_data.words # <<>> /\ settings.min_words >= 1 =>
        ~analysis.fallback

\* speech detected through the word-level path
WordLevelSpeech == Analyzed /\ analysis.has_speech /\ ~analysis.fallback

FirstQualifying == CHOOSE i \in Qualifying : \A j \in Qualifying : i <= j
LastQualifying == CHOOSE i \in Qualifying : \A j \in Qualifying : i >= j

\* end of the last qualifying word minus start of the first, a missing offset
\* read as 0
QualifyingSpan ==
    w_get_end(transcript_data.words[LastQualifying])
        - w_get_start(transcript_data.words[FirstQualifying])

\* the word records are in time order: each starts no later than it ends, and
\* no earlier than the one before it ends
TimeOrdered ==
    LET words == transcript_data.words IN
    /\ \A i \in 1..Len(words) : w_get_start(words[i]) <= w_get_end(words[i])
    /\ \A i \in 1..(Len(words) - 1) : w_get_end(words[i]) <= w_get_start(words[i + 1])

\* C10: whenever speech is detected through the word-level path, the duration
\* is the end offset of the last qualifying word minus the start offset of the
\* first, and it is >= 0.
C10_DurationIsSpanAndNonNegative ==
    WordLevelSpeech =>
        /\ analysis.duration = QualifyingSpan
        /\ analysis.duration >= 0

\* C10 as amended: the duration is that difference for every word list; it is
\* >= 0 when the word records are in time order.
C10_DurationIsSpan ==
    WordLevelSpeech =>
        /\ Qualifying # {}
        /\ analysis.duration = QualifyingSpan
        /\ analysis.speech_start = w_get_start(transcript_data.words[FirstQualifying])
        /\ analysis.speech_end = w_get_end(transcript_data.words[LastQualifying])
        /\ TimeOrdered => analysis.duration >= 0

\* C10 witness: a low-confidence word at 0..1 followed by a qualifying word at
\* 2..3: the speech is timed from the second word
C10_Witness ==
    /\ WordLevelSpeech
    /\ Len(transcript_data.words) = 2
    /\ Qualifying = {2}
    /\ transcript_data.words[1].has_timing /\ transcript_data.words[1].start = 0
    /\ TimeOrdered
    /\ analysis.speech_start = 2
    /\ analysis.duration = 1

(***************************************************************************)
(* Properties of the text-only path of analyze_speech (under SpecText).    *)
(***************************************************************************)
\* the whitespace-separated tokens of a text, counted at the end of each run
Tokens(text) ==
    Cardinality({i \in 1..Len(text) :
        text[i] \notin Whitespace /\ (i = Len(text) \/ text[i + 1] \in Whitespace)})

TextOnly == Analyzed /\ transcript_data.words = <<>>
DefaultUtterance ==
    TextOnly /\ transcript_data.text = Utterance /\ settings.min_words = 5

\* C11: with no word-level data and a minimum of 5, analyze_speech on "um yeah
\* so anyway let's meet tomorrow at noon" returns has_speech = true,
\* word_count = 8 and fallback = true; on the text-only path word_count is the
\* number of whitespace-separated tokens of the text, and speech is detected
\* exactly when that number meets the minimum.
C11_TextOnlyCountsTokens ==
    /\ DefaultUtterance =>
         analysis.has_speech /\ analysis.word_count = 8 /\ analysis.fallback
    /\ TextOnly =>
         /\ analysis.word_count = Tokens(transcript_data.text)
         /\ analysis.has_speech <=> Tokens(transcript_data.text) >= settings.min_words

\* C11 as amended: the utterance has nine tokens and word_count is 9; speech
\* is detected exactly when the text has a token and the number of tokens
\* meets the minimum; word_count is that number when speech is detected and 0
\* when it is not.
C11_TextOnlyCountsTokensWhenDetected ==
    /\ DefaultUtterance =>
         analysis.has_speech /\ analysis.word_count = 9 /\ analysis.fallback
    /\ TextOnly =>
         /\ analysis.has_speech <=>
              /\ Tokens(transcript_data.text) > 0
              /\ Tokens(transcript_data.text) >= settings.min_words
         /\ analysis.has_speech =>
              /\ analysis.word_count = Tokens(transcript_data.text)
              /\ analysis.fallback
         /\ ~analysis.has_speech => analysis.word_count = 0

\* C11 witness: the utterance analysed under the default minimum
C11_Witness == DefaultUtterance /\ analysis.has_speech

(***************************************************************************)
(* Properties of the title and summary generators (under SpecSummary).     *)
(***************************************************************************)
GenReturned(fn) == gen_pc = "done" /\ request.fn = fn /\ gen_ret.kind = "return"

\* the call's async_generate raised / returned
CompletionRaised == completions # <<>> /\ completions[Len(completions)] = "raised"
CompletionReturned == completions # <<>> /\ completions[Len(completions)] = "returned"

\* C12: the value returned by generate_short_summary is at most 120
\* characters long on every path: the completion path, the empty-completion
\* path and the fallback path taken when the completion call fails on a source
\* text longer than 120 characters.
C12_ShortSummaryAtMost120 ==
    GenReturned("generate_short_summary") => Len(gen_ret.value) <= 120

\* C12 on the fallback path alone
C12_ShortFallbackAtMost120 ==
    GenReturned("generate_short_summary") /\ CompletionRaised =>
        Len(gen_ret.value) <= 120

\* C12 where it holds: without a completion call, and on a fallback from a
\* source text of at most 120 characters
C12_ShortSummaryAtMost120GivenShortSource ==
    /\ GenReturned("generate_short_summary") /\ completions = <<>> =>
         Len(gen_ret.value) <= 120
    /\ GenReturned("generate_short_summary") /\ CompletionRaised
         /\ Len(prompt.source) <= 120 => Len(gen_ret.value) <= 120

TitleCalled == request.fn = "generate_title"

\* C13: generate_title called with an input text shorter than 10 characters
\* returns "Conversation" and never invokes the completion capability, for
\* every value of the optional segments argument.
C13_ShortTextGivesConversation ==
    TitleCalled /\ Len(request.text) < 10 =>
        /\ completions = <<>>
        /\ gen_pc = "done" /\ gen_ret = Returns(Conversation)

\* the first 10 segments whose text is not blank
TitleSegments ==
    {i \in 1..Len(request.segments) : i <= 10 /\ strip(request.segments[i].text) # <<>>}

RECURSIVE StrippedLength(_)
StrippedLength(S) ==
    IF S = {} THEN 0
    ELSE LET i == CHOOSE x \in S : TRUE IN
         Len(strip(request.segments[i].text)) + StrippedLength(S \ {i})

\* the length, once stripped, of the text generate_title works from: the
\* texts of those segments joined by newlines, or the input text without them
TitleWorkLength ==
    IF TitleSegments # {}
    THEN StrippedLength(TitleSegments) + Cardinality(TitleSegments) - 1
    ELSE Len(strip(request.text))

\* C13 as amended: generate_title makes no completion call exactly when the
\* text it works from is shorter than 10 characters once stripped, and then
\* it returns "Conversation"; segments with a non-blank text replace the input
\* text.
C13_ShortWorkTextGivesConversation ==
    TitleCalled =>
        /\ completions = <<>> <=> TitleWorkLength < 10
        /\ completions = <<>> => gen_pc = "done" /\ gen_ret = Returns(Conversation)

\* C13 witness: a short input text, segments with blank texts only, and
\* "Conversation" returned without a completion call
C13_Witness ==
    /\ TitleCalled
    /\ request.text # <<>> /\ Len(request.text) < 10
    /\ request.segments # <<>> /\ TitleSegments = {}
    /\ completions = <<>>
    /\ gen_ret = Returns(Conversation)

SummaryCalled == request.fn \in {"generate_short_summary", "generate_detailed_summary"}

\* the prompt of the call has been built and sent
Prompted == completions # <<>>

\* the distinct speaker labels among the segments with a non-blank text
SpeakerLabels ==
    {request.segments[i].speaker : i \in
        {j \in 1..Len(request.segments) :
            /\ strip(request.segments[j].text) # <<>>
            /\ request.segments[j].speaker # <<>>}}

\* C14: generate_short_summary and generate_detailed_summary add the
\* speaker-attribution instructions to the prompt exactly when more than one
\* distinct speaker label appears among the segments with non-empty text;
\* with a single speaker label or none the instructions are not added.
C14_SpeakerInstructionsNeedTwoSpeakers ==
    SummaryCalled /\ Prompted =>
        (prompt.speaker_instruction <=> Cardinality(SpeakerLabels) > 1)

\* C14 as amended: the instructions are added exactly when at least one
\* speaker label appears among the segments with non-blank text, a single
\* label included.
C14_SpeakerInstructionsNeedOneSpeaker ==
    SummaryCalled /\ Prompted =>
        (prompt.speaker_instruction <=> Cardinality(SpeakerLabels) > 0)

\* C14 witness: a prompt built from segments that carry one speaker label,
\* with the instructions in it
C14_Witness ==
    /\ SummaryCalled /\ Prompted
    /\ Cardinality(SpeakerLabels) = 1
    /\ Len(request.segments) = 2
    /\ prompt.speaker_instruction

(***************************************************************************)
(* Properties of the adapter's life cycle (under Spec).                    *)
(***************************************************************************)
ShutDown(t) == Done(t) /\ call[t].op = "shutdown"

\* C15: shutdown() releases the held connection and is repeatable: from any
\* adapter state it raises nothing, and after it returns the adapter is not
\* initialized and no longer holds a connection handle, so that no operation
\* issues a remote request through the old handle until initialization runs
\* again; a second call leaves that state unchanged.
C15_ShutdownReleasesConnection ==
    \A t \in Tasks :
        ShutDown(t) =>
            /\ ret[t] = Return(VNone)
            /\ ~initialized
            /\ client = 0

\* C15 without the release: shutdown() raises nothing and leaves the adapter
\* not initialized
C15_ShutdownClearsFlag ==
    \A t \in Tasks : ShutDown(t) => ret[t] = Return(VNone) /\ ~initialized

\* an initialize() call of task t whose health check failed
InitializeFailed(t) ==
    /\ Done(t) /\ call[t].op = "initialize"
    /\ attempts[loc[t].handle] = "failed"

\* C16: whenever initialize() fails (the health check answers a non-success
\* status or the transport fails) it raises a connection error and leaves the
\* adapter not initialized, in every prior state, an adapter that an earlier
\* initialize() marked initialized included.
C16_FailedInitializeLeavesUninitialized ==
    \A t \in Tasks :
        InitializeFailed(t) => ret[t] = Raise("RuntimeError") /\ ~initialized

\* C16 from an adapter that was not initialized when the call began
C16_FailedFirstInitializeLeavesUninitialized ==
    \A t \in Tasks :
        InitializeFailed(t) /\ ~hist[t].wasInit =>
            ret[t] = Raise("RuntimeError") /\ ~initialized

(***************************************************************************)
(* Properties of identifier unwrapping (under SpecUnwrap).                 *)
(***************************************************************************)
\* the argument is a plain string or a single-level wrapper of one
PlainOrWrapped == unwrap_arg.t \in {"str", "oid"}

\* C17: unwrapping is idempotent over plain strings and single-level
\* wrappers: for every string s, unwrapping {"$oid": s} yields s, unwrapping s
\* yields s unchanged, and unwrapping the result of an unwrap yields the same
\* value again.
C17_UnwrapIsIdempotent ==
    /\ PlainOrWrapped /\ unwrapped # <<>> => unwrapped[1] = JStr(unwrap_arg.s)
    /\ PlainOrWrapped => \A i \in 2..Len(unwrapped) : unwrapped[i] = unwrapped[1]

\* C17 witness: {"$oid": "m1"} unwrapped twice
C17_Witness ==
    /\ unwrap_arg = JOid("m1")
    /\ Len(unwrapped) = 2
    /\ unwrapped[2] = JStr("m1")

\* a generate_* call has returned after its async_generate raised
FellBack(fn) == GenReturned(fn) /\ CompletionRaised

\* text cut to n characters and marked as cut when it is longer
CutTo(text, n) == IF Len(text) > n THEN SubSeq(text, 1, n) \o <<".", ".", ".">> ELSE text

\* the lines of text that are not blank, stripped
StrippedLines(text) ==
    LET lines == split_on(text, "\n") IN
    SelectSeq([i \in 1..Len(lines) |-> strip(lines[i])], LAMBDA line : line # <<>>)

\* C18: when the completion call raises, generate_title,
\* generate_short_summary and generate_detailed_summary raise nothing to their
\* caller and return a non-empty fallback that is a function of the source
\* text alone: its first six words cut to 40 characters, its first 120
\* characters, its non-blank lines cut to 2000 characters.
C18_FallbackFromSourceText ==
    /\ gen_pc = "done" => gen_ret.kind = "return"
    /\ gen_pc = "done" /\ CompletionRaised => gen_ret.value # <<>>
    /\ FellBack("generate_title") =>
         gen_ret.value = CutTo(join(Take(split(prompt.source), 6), " "), 40)
    /\ FellBack("generate_short_summary") => gen_ret.value = CutTo(prompt.source, 120)
    /\ FellBack("generate_detailed_summary") =>
         gen_ret.value = CutTo(join(StrippedLines(prompt.source), "\n"), 2000)

\* C18 witness: a title cut to 40 characters after the completion call raised
C18_Witness ==
    /\ FellBack("generate_title")
    /\ Len(split(request.text)) = 7
    /\ Len(gen_ret.value) = 43

(***************************************************************************)
(* Properties of concurrent first calls (under SpecRace).                  *)
(***************************************************************************)
\* C19: two concurrent first calls on an uninitialized adapter may both run
\* initialization, and the duplication is harmless: in every interleaving,
\* whenever the adapter is marked initialized the connection handle it holds
\* was created by an initialization attempt that itself succeeded (and no
\* attempt that reported failure marked the adapter initialized, for which see
\* C19_FlagSetBySuccess below).
C19_InitializedHandleSucceeded ==
    initialized => client > 0 /\ attempts[client] = "ok"

\* C19 for finished attempts only: the handle of an adapter marked
\* initialized was not created by an attempt that failed
C19_InitializedHandleNotFailed ==
    initialized => client > 0 /\ attempts[client] # "failed"

\* C19, the part that holds: the flag is only ever set by an attempt that
\* succeeded
C19_FlagSetBySuccess ==
    [][~initialized /\ initialized' =>
          \E h \in 1..Len(attempts) : attempts[h] = "pending" /\ attempts'[h] = "ok"]_vars

(***************************************************************************)
(* Properties of the connection handle (under Spec).                       *)
(***************************************************************************)
HandleMakers ==
    {"initialize", "search_memories", "get_all_memories", "count_memories",
     "test_connection"}
HandleUsers == {"add_memory", "delete_memory", "delete_all_user_memories"}

\* task t has just entered a call that goes through initialize()
EntersInitialize(t) ==
    /\ pc[t] \in {"idle", "done"} /\ pc'[t] = "health"
    /\ call'[t].op \in HandleMakers

\* a call of add_memory, delete_memory or delete_all_user_memories has ended
\* on an adapter that holds no handle
EndedWithoutHandle(t) ==
    Done(t) /\ call[t].op \in HandleUsers /\ client = 0

\* C20: only initialize, search_memories, get_all_memories, count_memories and
\* test_connection ever create the connection handle; add_memory,
\* delete_memory and delete_all_user_memories never trigger initialization, so
\* on an adapter on which none of the former has run they return (False, []),
\* False and 0 without issuing any remote request, for every input.
C20_OnlyInitializingCallsMakeHandle ==
    [][/\ client' # client \/ Len(attempts') # Len(attempts) =>
            \E t \in Tasks : EntersInitialize(t)
       /\ \A t \in Tasks :
            EndedWithoutHandle(t)' =>
                /\ attempts' = <<>>
                /\ ret'[t] = Return(Negative(call'[t].op))
                /\ hist'[t].nReq = 0]_vars

\* C20 witness: delete_all_user_memories on an adapter without a handle has
\* looked the user up and returned 0 with no request sent
C20_Witness ==
    /\ EndedWithoutHandle("t1")
    /\ call["t1"].op = "delete_all_user_memories"
    /\ hist["t1"].nLookup = 1 /\ ~hist["t1"].lookupFailed
    /\ hist["t1"].nReq = 0
    /\ ret["t1"] = Return(VInt(0))

====
